---- MODULE Spec2Model ----
(***************************************************************************)
(* jx: dependency resolver (src/resolve.rs), dependency model              *)
(* (src/dependency.rs), lock file store (src/lock.rs) and the `add`        *)
(* command's coordinate parser (src/commands/add.rs).                      *)
(***************************************************************************)
EXTENDS Integers, Sequences, FiniteSets, TLC

VARIABLES
    \* ---- DependencyResolver (src/resolve.rs:5-9) ----
    resolved,       \* HashMap<String, Dependency>: function key -> Dependency
    unresolved,     \* HashSet<String>
    in_progress,    \* HashSet<String>
    \* ---- one resolve_dependencies call in flight (src/resolve.rs:20-61) ----
    pc,             \* "idle" | "loop" | "transitive"
    specs,          \* the `dependencies` argument of the call
    idx,            \* position of the for loop over `dependencies`
    resolved_deps,  \* the local Vec of resolve_dependencies
    expansions,     \* calls of resolve_transitive_dependencies per key, this call
    fresh,          \* the memo was empty when the call in flight started
    prev,           \* outcome of the call just before, when it had the same specs
    ret,            \* return value of the operation completed last
    metadata,       \* the repository's answer: key -> keys it requires
    unavailable,    \* keys whose lookup in the repository fails or times out
    \* ---- LockFile (src/lock.rs:7-32) and the file it is saved to ----
    lock,           \* the LockFile value the process holds
    disk,           \* the lock file at the path: exists, content (lines)
    lock_ret,       \* return value of the lock operation completed last
    writing,        \* a save in flight: the text fs::write is writing, the file before it
    reader,         \* what a load in another process found at the path
    \* ---- the `add` command (src/commands/add.rs) ----
    files,          \* the project directory: file name -> lines, or Absent
    runs,           \* runs of the command so far
    add_ret,        \* input and outcome of the run completed last
    \* ---- Downloader (src/download.rs) and Installer (src/install.rs) ----
    cache,          \* the cache directory: path -> file (exists, chunks written)
    lib,            \* the lib directory: file name -> file
    dl,             \* the download_dependency call in flight and its position
    inst,           \* the install_dependencies call in flight and its position
    dl_ret          \* return value of the download or install completed last

resolverVars == <<resolved, unresolved, in_progress, pc, specs, idx,
                  resolved_deps, expansions, fresh, prev, ret, metadata,
                  unavailable>>

lockVars == <<lock, disk, lock_ret, writing, reader>>

addVars == <<files, runs, add_ret>>

downloadVars == <<cache, lib, dl, inst, dl_ret>>

vars == <<resolverVars, lockVars, addVars, downloadVars>>

(***************************************************************************)
(* Bounds                                                                  *)
(***************************************************************************)
MaxSpecs == 2      \* longest `dependencies` slice handed to resolve_dependencies
MaxTorn == 7       \* most lines a failed write of the lock file leaves out
MaxFields == 4     \* most colon-separated fields of a dependency string
MaxRuns == 1       \* most runs of the add command on one project
MaxWrite == 3      \* most lines one write of fs::write puts in the file
MaxEdits == 3      \* most runs of the add and remove commands on one project
MaxChunks == 2     \* chunks the body of a download response comes in
MaxInstall == 2    \* longest `dependencies` slice handed to install_dependencies

None == "None"

(***************************************************************************)
(* src/dependency.rs                                                       *)
(***************************************************************************)
Exclusion(g, a) == [group_id |-> g, artifact_id |-> a]

\* Dependency::new (dependency.rs:39-49)
Dependency_new(g, a, v) ==
    [group_id |-> g, artifact_id |-> a, version |-> v, scope |-> "Compile",
     classifier |-> None, exclusions |-> <<>>, optional |-> FALSE]

\* Dependency::with_classifier (dependency.rs:56-59)
with_classifier(d, c) == [d EXCEPT !.classifier = c]

\* Dependency::with_exclusions (dependency.rs:61-64)
with_exclusions(d, ex) == [d EXCEPT !.exclusions = ex]

\* Dependency::coordinate (dependency.rs:71-73)
coordinate(d) == d.group_id \o ":" \o d.artifact_id \o ":" \o d.version

\* The dependencies a caller can hand to the resolver.
DepAB1 == Dependency_new("a", "b", "1.0")
DepAB2 == Dependency_new("a", "b", "2.0")
DepGX1 == Dependency_new("g", "x", "1.0")
Dependencies ==
    { DepAB1, DepAB2, DepGX1,
      with_classifier(DepAB1, "sources"),
      with_exclusions(DepAB2, <<Exclusion("g", "x")>>) }

Keys == { coordinate(d) : d \in Dependencies }

SeqsUpTo(S, n) == UNION { [1..k -> S] : k \in 0..n }

(***************************************************************************)
(* The repository metadata: which coordinate requires which.  It is the    *)
(* answer Maven Central would give (resolve.rs:67-68); the samples are an  *)
(* empty repository, a chain, a diamond and a cycle.                       *)
(***************************************************************************)
NoEdges == [k \in Keys |-> {}]
Edges(E) == [k \in Keys |-> { e[2] : e \in { x \in E : x[1] = k } }]
MetadataSources ==
    { NoEdges,
      Edges({<<"a:b:1.0", "g:x:1.0">>}),
      Edges({<<"a:b:1.0", "g:x:1.0">>, <<"a:b:2.0", "g:x:1.0">>}),
      Edges({<<"a:b:1.0", "a:b:2.0">>, <<"a:b:2.0", "a:b:1.0">>}) }

\* the repository as a resolver finds it: its metadata and the keys whose
\* lookup fails; the samples are each metadata with every lookup answering,
\* and one repository whose lookup of a:b:1.0 fails
Repositories ==
    { <<md, {}>> : md \in MetadataSources } \cup { <<NoEdges, {"a:b:1.0"}>> }

\* keys reachable from k through n or fewer edges of metadata
RECURSIVE ReachN(_, _, _)
ReachN(md, S, n) ==
    IF n = 0 THEN S
    ELSE ReachN(md, S \cup UNION { md[k] : k \in S }, n - 1)
\* keys k transitively requires (k itself only if it lies on a cycle)
Requires(md, k) == ReachN(md, md[k], Cardinality(Keys))
OnCycle(md, k) == k \in Requires(md, k)

(***************************************************************************)
(* src/resolve.rs                                                          *)
(***************************************************************************)
NoRet == [op |-> "none"]
NoPrev == [specs |-> <<>>, keys |-> {}, valid |-> FALSE, kind |-> "none"]

\* function f with key k bound to v (HashMap::insert)
Insert(f, k, v) == [x \in DOMAIN f \cup {k} |-> IF x = k THEN v ELSE f[x]]
\* function f without key k (HashMap::remove)
Remove(f, k) == [x \in DOMAIN f \ {k} |-> f[x]]
EmptyMap == <<>>

\* DependencyResolver::new (resolve.rs:12-18)
ResolverInit ==
    /\ resolved = EmptyMap
    /\ unresolved = {}
    /\ in_progress = {}
    /\ pc = "idle"
    /\ specs = <<>>
    /\ idx = 1
    /\ resolved_deps = <<>>
    /\ expansions = [k \in Keys |-> 0]
    /\ fresh = TRUE
    /\ prev = NoPrev
    /\ ret = NoRet
    /\ \E repository \in Repositories :
          /\ metadata = repository[1]
          /\ unavailable = repository[2]

\* resolve_transitive_dependencies (resolve.rs:63-72): the stub answers with
\* an empty vector whatever the repository holds.
resolve_transitive_dependencies(md, dependency) == <<>>

\* a hit on the memo that returns nothing
MemoHit_Nothing(memo, key) == <<>>

\* the hit on the memo (resolve.rs:38-40)
MemoHit(memo, key) == <<memo[key]>>

KeysOf(deps) == { coordinate(deps[n]) : n \in 1..Len(deps) }

\* resolve_dependencies entry (resolve.rs:20-24)
ResolveCall(dependencies) ==
    /\ pc = "idle"
    /\ pc' = "loop"
    /\ specs' = dependencies
    /\ idx' = 1
    /\ resolved_deps' = <<>>
    /\ expansions' = [k \in Keys |-> 0]
    /\ fresh' = (DOMAIN resolved = {})
    /\ ret' = NoRet
    /\ prev' = IF ret.op = "resolve" /\ ret.specs = dependencies
               THEN [specs |-> ret.specs, keys |-> ret.keys, valid |-> TRUE,
                     kind |-> ret.kind]
               ELSE NoPrev
    /\ UNCHANGED <<resolved, unresolved, in_progress, metadata, unavailable, lockVars, addVars, downloadVars>>

\* a resolve_dependency that marks the key resolved before it is expanded
ResolveBegin_MarksResolved ==
    /\ pc = "loop"
    /\ idx <= Len(specs)
    /\ LET dependency == specs[idx]
           key == coordinate(dependency)
       IN  IF key \in DOMAIN resolved
           THEN /\ resolved_deps' = resolved_deps \o MemoHit(resolved, key)
                /\ idx' = idx + 1
                /\ UNCHANGED <<pc, in_progress, resolved>>
           ELSE /\ resolved' = Insert(resolved, key, dependency)
                /\ resolved_deps' = resolved_deps \o <<dependency>>
                /\ idx' = idx + 1
                /\ UNCHANGED <<pc, in_progress>>
    /\ UNCHANGED <<unresolved, specs, expansions, fresh, prev, ret, metadata, unavailable,
                   lockVars, addVars, downloadVars>>

\* one turn of the for loop up to the await: resolve_dependency (resolve.rs:26-48)
ResolveBegin ==
    /\ pc = "loop"
    /\ idx <= Len(specs)
    /\ LET dependency == specs[idx]
           key == coordinate(dependency)
       IN  IF key \in DOMAIN resolved
           THEN /\ resolved_deps' = resolved_deps \o MemoHit(resolved, key)
                /\ idx' = idx + 1
                /\ UNCHANGED <<pc, in_progress, ret>>
           ELSE IF key \in in_progress
           THEN /\ ret' = [op |-> "resolve", kind |-> "Err", error |-> "Cycle",
                           key |-> key, specs |-> specs, keys |-> {},
                           list |-> <<>>]
                /\ pc' = "idle"
                /\ UNCHANGED <<idx, resolved_deps, in_progress>>
           ELSE /\ in_progress' = in_progress \cup {key}
                /\ pc' = "transitive"
                /\ UNCHANGED <<idx, resolved_deps, ret>>
    /\ UNCHANGED <<resolved, unresolved, specs, expansions, fresh, prev, metadata, unavailable,
                   lockVars, addVars, downloadVars>>

\* a resolve_dependency that leaves the key in in_progress when it returns
ResolveFinish_KeepsInProgress ==
    /\ pc = "transitive"
    /\ LET dependency == specs[idx]
           key == coordinate(dependency)
       IN  /\ expansions' = [expansions EXCEPT ![key] = @ + 1]
           /\ resolved_deps' = resolved_deps \o <<dependency>>
           /\ resolved' = Insert(resolved, key, dependency)
    /\ idx' = idx + 1
    /\ pc' = "loop"
    /\ UNCHANGED <<unresolved, in_progress, specs, fresh, prev, ret, metadata,
                   unavailable, lockVars, addVars, downloadVars>>

\* the rest of resolve_dependency and of the loop turn (resolve.rs:50-60, 28)
ResolveFinish ==
    /\ pc = "transitive"
    /\ LET dependency == specs[idx]
           key == coordinate(dependency)
           transitive_deps == resolve_transitive_dependencies(metadata, dependency)
       IN  /\ expansions' = [expansions EXCEPT ![key] = @ + 1]
           /\ resolved_deps' = resolved_deps \o <<dependency>> \o transitive_deps
           /\ resolved' = Insert(resolved, key, dependency)
           /\ in_progress' = in_progress \ {key}
    /\ idx' = idx + 1
    /\ pc' = "loop"
    /\ UNCHANGED <<unresolved, specs, fresh, prev, ret, metadata, unavailable, lockVars, addVars, downloadVars>>

\* Ok(resolved_deps) (resolve.rs:31)
ResolveReturn ==
    /\ pc = "loop"
    /\ idx > Len(specs)
    /\ ret' = [op |-> "resolve", kind |-> "Ok", specs |-> specs,
               keys |-> KeysOf(resolved_deps), list |-> resolved_deps]
    /\ pc' = "idle"
    /\ specs' = <<>>
    /\ idx' = 1
    /\ resolved_deps' = <<>>
    /\ UNCHANGED <<resolved, unresolved, in_progress, expansions, fresh, prev,
                   metadata, unavailable, lockVars, addVars, downloadVars>>

\* the repository answers again for every key
Recover ==
    /\ pc = "idle"
    /\ unavailable # {}
    /\ unavailable' = {}
    /\ UNCHANGED <<resolved, unresolved, in_progress, pc, specs, idx, resolved_deps,
                   expansions, fresh, prev, ret, metadata, lockVars, addVars, downloadVars>>

\* DependencyResolver::clear (resolve.rs:193-197)
Clear ==
    /\ pc = "idle"
    /\ resolved' = EmptyMap
    /\ unresolved' = {}
    /\ in_progress' = {}
    /\ ret' = IF ret.op = "resolve" THEN ret ELSE NoRet
    /\ UNCHANGED <<pc, specs, idx, resolved_deps, expansions, fresh, prev, metadata, unavailable, lockVars, addVars, downloadVars>>

\* an iteration order of a HashMap's keys: any order, chosen by the hasher
Orders(S) == { f \in [1..Cardinality(S) -> S] : \A x \in S : \E n \in DOMAIN f : f[n] = x }

Reverse(s) == [n \in 1..Len(s) |-> s[Len(s) + 1 - n]]

\* a topological_sort whose test of visited is the wrong way round
topological_sort_visited_inverted(key, st) ==
    IF key \in st.temp_visited THEN [st EXCEPT !.ok = FALSE]
    ELSE IF key \notin st.visited THEN [st EXCEPT !.ok = TRUE]
    ELSE [visited |-> st.visited \cup {key},
          temp_visited |-> (st.temp_visited \cup {key}) \ {key},
          order |-> Append(st.order, key),
          ok |-> TRUE]

\* topological_sort (resolve.rs:95-123); st holds visited, temp_visited, order
\* and ok (FALSE for the Err of line 103).  The walk over the transitive
\* dependencies is commented out in the source (lines 112-116).
topological_sort(key, st) ==
    IF key \in st.temp_visited THEN [st EXCEPT !.ok = FALSE]
    ELSE IF key \in st.visited THEN [st EXCEPT !.ok = TRUE]
    ELSE [visited |-> st.visited \cup {key},
          temp_visited |-> (st.temp_visited \cup {key}) \ {key},
          order |-> Append(st.order, key),
          ok |-> TRUE]

\* the for loop of get_resolution_order (resolve.rs:80-89) from position n on
RECURSIVE OrderLoop(_, _, _)
OrderLoop(keys, n, st) ==
    IF n > Len(keys) THEN st
    ELSE OrderLoop(keys, n + 1,
                   IF keys[n] \notin st.visited
                   THEN topological_sort(keys[n], st) ELSE st)

\* get_resolution_order (resolve.rs:74-93), keys in the map's iteration order
get_resolution_order(keys) ==
    Reverse(OrderLoop(keys, 1, [visited |-> {}, temp_visited |-> {},
                                order |-> <<>>, ok |-> TRUE]).order)

\* a get_resolution_order that gives up the whole ordering when a resolved
\* key lies on a cycle
GetResolutionOrder_AbortsOnCycle ==
    /\ pc = "idle"
    /\ \E keys \in Orders(DOMAIN resolved) :
          ret' = [op |-> "order",
                  list |-> IF \E k \in DOMAIN resolved : k \in Requires(metadata, k)
                           THEN <<>> ELSE get_resolution_order(keys)]
    /\ prev' = NoPrev
    /\ UNCHANGED <<resolved, unresolved, in_progress, pc, specs, idx,
                   resolved_deps, expansions, fresh, metadata, unavailable, lockVars, addVars, downloadVars>>

GetResolutionOrder ==
    /\ pc = "idle"
    /\ \E keys \in Orders(DOMAIN resolved) :
          ret' = [op |-> "order", list |-> get_resolution_order(keys)]
    /\ prev' = NoPrev
    /\ UNCHANGED <<resolved, unresolved, in_progress, pc, specs, idx,
                   resolved_deps, expansions, fresh, metadata, unavailable, lockVars, addVars, downloadVars>>

\* one turn of the loop of detect_conflicts (resolve.rs:129-145); st holds
\* conflicts and version_map
DetectStep(dep, st) ==
    LET key == dep.group_id \o ":" \o dep.artifact_id
        vm == IF key \in DOMAIN st.version_map THEN st.version_map
              ELSE Insert(st.version_map, key, EmptyMap)
        versions == vm[key]
    IN  IF dep.version \in DOMAIN versions
        THEN IF versions[dep.version] # dep.version
             THEN [conflicts |->
                       Append(st.conflicts,
                              [group_id |-> dep.group_id,
                               artifact_id |-> dep.artifact_id,
                               versions |-> <<versions[dep.version], dep.version>>,
                               conflict_type |-> "VersionConflict"]),
                   version_map |-> vm]
             ELSE [st EXCEPT !.version_map = vm]
        ELSE [st EXCEPT !.version_map =
                  Insert(vm, key, Insert(versions, dep.version, dep.version))]

RECURSIVE DetectLoop(_, _, _)
DetectLoop(values, n, st) ==
    IF n > Len(values) THEN st
    ELSE DetectLoop(values, n + 1, DetectStep(values[n], st))

\* detect_conflicts (resolve.rs:125-148), values in the map's iteration order
detect_conflicts(values) ==
    DetectLoop(values, 1, [conflicts |-> <<>>, version_map |-> EmptyMap]).conflicts

DetectConflicts ==
    /\ pc = "idle"
    /\ \E keys \in Orders(DOMAIN resolved) :
          ret' = [op |-> "conflicts",
                  list |-> detect_conflicts([n \in 1..Len(keys) |-> resolved[keys[n]]])]
    /\ prev' = NoPrev
    /\ UNCHANGED <<resolved, unresolved, in_progress, pc, specs, idx,
                   resolved_deps, expansions, fresh, metadata, unavailable, lockVars, addVars, downloadVars>>

(***************************************************************************)
(* src/lock.rs                                                             *)
(***************************************************************************)
\* LockedDependency (lock.rs:14-24)
LockedDependency(g, a, v, c, deps) ==
    [group_id |-> g, artifact_id |-> a, version |-> v, classifier |-> c,
     scope |-> "compile", checksum |-> "", url |-> "", dependencies |-> deps]

\* the entries a caller can hand to add_dependency
LockedDependencies ==
    { LockedDependency("a", "b", "1.0", None, <<"g:x:1.0">>),
      [LockedDependency("a", "b", "1.0", "sources", <<>>)
          EXCEPT !.checksum = "sha1", !.url = "https://repo/b.jar"],
      LockedDependency("g", "x", "1.0", None, <<>>) }

\* LockFile::new (lock.rs:35-46)
LockFile_new(t) ==
    [version |-> "1.0", dependencies |-> EmptyMap,
     metadata |-> [created_at |-> t, updated_at |-> t,
                   total_dependencies |-> 0, total_size |-> 0]]

\* the key of add_dependency and the other operations (lock.rs:49, 56, 71, 76)
LockKey(g, a, v) == g \o ":" \o a \o ":" \o v

\* an add_dependency that counts one more entry on every call
add_dependency_count_up(lf, dep, t) ==
    LET deps == Insert(lf.dependencies,
                       LockKey(dep.group_id, dep.artifact_id, dep.version), dep)
    IN  [lf EXCEPT !.dependencies = deps,
                   !.metadata.total_dependencies = lf.metadata.total_dependencies + 1,
                   !.metadata.updated_at = t]

\* add_dependency (lock.rs:48-53)
add_dependency(lf, dep, t) ==
    LET deps == Insert(lf.dependencies,
                       LockKey(dep.group_id, dep.artifact_id, dep.version), dep)
    IN  [lf EXCEPT !.dependencies = deps,
                   !.metadata.total_dependencies = Cardinality(DOMAIN deps),
                   !.metadata.updated_at = t]

\* a remove_dependency that answers true whether or not the key was there
remove_dependency_always_true(lf, g, a, v, t) ==
    LET key == LockKey(g, a, v)
        deps == Remove(lf.dependencies, key)
    IN  [store |-> [lf EXCEPT !.dependencies = deps,
                              !.metadata.total_dependencies = Cardinality(DOMAIN deps),
                              !.metadata.updated_at = t],
         removed |-> TRUE]

\* remove_dependency (lock.rs:55-63): the store after it and the value returned
remove_dependency(lf, g, a, v, t) ==
    LET key == LockKey(g, a, v)
        removed == key \in DOMAIN lf.dependencies
        deps == Remove(lf.dependencies, key)
    IN  [store |-> IF removed
                   THEN [lf EXCEPT !.dependencies = deps,
                                   !.metadata.total_dependencies = Cardinality(DOMAIN deps),
                                   !.metadata.updated_at = t]
                   ELSE lf,
         removed |-> removed]

\* get_dependency (lock.rs:65-73): <<>> for None, <<entry>> for Some(entry)
get_dependency(lf, g, a, v) ==
    IF LockKey(g, a, v) \in DOMAIN lf.dependencies
    THEN <<lf.dependencies[LockKey(g, a, v)]>>
    ELSE <<>>

\* has_dependency (lock.rs:75-78)
has_dependency(lf, g, a, v) == LockKey(g, a, v) \in DOMAIN lf.dependencies

\* an update_checksum that sets updated_at whether or not the key is there
update_checksum_always_touches(lf, g, a, v, checksum, t) ==
    LET key == LockKey(g, a, v)
    IN  IF key \in DOMAIN lf.dependencies
        THEN [lf EXCEPT !.dependencies[key].checksum = checksum,
                        !.metadata.updated_at = t]
        ELSE [lf EXCEPT !.metadata.updated_at = t]

\* update_checksum (lock.rs:96-109)
update_checksum(lf, g, a, v, checksum, t) ==
    LET key == LockKey(g, a, v)
    IN  IF key \in DOMAIN lf.dependencies
        THEN [lf EXCEPT !.dependencies[key].checksum = checksum,
                        !.metadata.updated_at = t]
        ELSE lf

\* an update_url that leaves updated_at as it was
update_url_untouched(lf, g, a, v, url, t) ==
    LET key == LockKey(g, a, v)
    IN  IF key \in DOMAIN lf.dependencies
        THEN [lf EXCEPT !.dependencies[key].url = url]
        ELSE lf

\* update_url (lock.rs:111-124)
update_url(lf, g, a, v, url, t) ==
    LET key == LockKey(g, a, v)
    IN  IF key \in DOMAIN lf.dependencies
        THEN [lf EXCEPT !.dependencies[key].url = url,
                        !.metadata.updated_at = t]
        ELSE lf

\* LockedDependency::coordinate (lock.rs:175-178)
locked_coordinate(dep) == dep.group_id \o ":" \o dep.artifact_id \o ":" \o dep.version

\* a loop over the edges that gives the child the depth of its parent
RECURSIVE TreeChildren_same_depth(_, _, _, _, _, _)

\* a loop over the edges that stops at the first edge whose target is missing
RECURSIVE TreeChildren_stops_at_missing(_, _, _, _, _, _)

\* build_tree_node (lock.rs:140-165): the node and the visited map after it.
\* TreeChildren is its loop over dep.dependencies (lines 155-162) from edge n
\* on, `children` being node.children so far.
RECURSIVE build_tree_node(_, _, _, _)
RECURSIVE TreeChildren(_, _, _, _, _, _)
build_tree_node(lf, dep, visited, depth) ==
    LET r == TreeChildren(lf, dep.dependencies, 1, visited \cup {locked_coordinate(dep)},
                          depth, <<>>)
    IN  [node |-> [dependency |-> dep, children |-> r.children, depth |-> depth],
         visited |-> r.visited]

TreeChildren_same_depth(lf, edges, n, visited, depth, children) ==
    IF n > Len(edges) THEN [children |-> children, visited |-> visited]
    ELSE IF edges[n] \in DOMAIN lf.dependencies /\ edges[n] \notin visited
    THEN LET c == build_tree_node(lf, lf.dependencies[edges[n]], visited, depth)
         IN  TreeChildren(lf, edges, n + 1, c.visited, depth, Append(children, c.node))
    ELSE TreeChildren(lf, edges, n + 1, visited, depth, children)

TreeChildren_stops_at_missing(lf, edges, n, visited, depth, children) ==
    IF n > Len(edges) THEN [children |-> children, visited |-> visited]
    ELSE IF edges[n] \notin DOMAIN lf.dependencies
    THEN [children |-> children, visited |-> visited]
    ELSE IF edges[n] \notin visited
    THEN LET c == build_tree_node(lf, lf.dependencies[edges[n]], visited, depth + 1)
         IN  TreeChildren(lf, edges, n + 1, c.visited, depth, Append(children, c.node))
    ELSE TreeChildren(lf, edges, n + 1, visited, depth, children)

TreeChildren(lf, edges, n, visited, depth, children) ==
    IF n > Len(edges) THEN [children |-> children, visited |-> visited]
    ELSE IF edges[n] \in DOMAIN lf.dependencies /\ edges[n] \notin visited
    THEN LET c == build_tree_node(lf, lf.dependencies[edges[n]], visited, depth + 1)
         IN  TreeChildren(lf, edges, n + 1, c.visited, depth, Append(children, c.node))
    ELSE TreeChildren(lf, edges, n + 1, visited, depth, children)

\* a loop over the entries that makes a root of every entry, visited or not
RECURSIVE TreeRoots_every_entry(_, _, _, _, _)
TreeRoots_every_entry(lf, keys, n, visited, tree) ==
    IF n > Len(keys) THEN tree
    ELSE LET r == build_tree_node(lf, lf.dependencies[keys[n]], visited, 0)
         IN  TreeRoots_every_entry(lf, keys, n + 1, r.visited, Append(tree, r.node))

\* the loop of get_dependency_tree (lock.rs:130-135) from entry n on, the
\* entries in the map's iteration order `keys`
RECURSIVE TreeRoots(_, _, _, _, _)
TreeRoots(lf, keys, n, visited, tree) ==
    IF n > Len(keys) THEN tree
    ELSE IF keys[n] \notin visited
    THEN LET r == build_tree_node(lf, lf.dependencies[keys[n]], visited, 0)
         IN  TreeRoots(lf, keys, n + 1, r.visited, Append(tree, r.node))
    ELSE TreeRoots(lf, keys, n + 1, visited, tree)

\* get_dependency_tree (lock.rs:126-138)
get_dependency_tree(lf, keys) == TreeRoots(lf, keys, 1, {}, <<>>)

(***************************************************************************)
(* The TOML text of a LockFile, line by line.  A line is a key with its    *)
(* value, <<"kv", key, value>>, or a table header, <<"table", path>>.      *)
(***************************************************************************)
KV(k, v) == <<"kv", k, v>>
Table(path) == <<"table", path>>

\* an Option field that writes None as the empty string
OptionLine_EmptyString(k, v) == <<KV(k, IF v = None THEN "" ELSE v)>>

\* the Option field of a struct: None writes no line (derive(Serialize), lock.rs:14-19)
OptionLine(k, v) == IF v = None THEN <<>> ELSE <<KV(k, v)>>

\* one entry of the dependencies table (derive(Serialize), lock.rs:14-24)
EntryLines(key, dep) ==
    <<Table(<<"dependencies", key>>),
      KV("group_id", dep.group_id),
      KV("artifact_id", dep.artifact_id),
      KV("version", dep.version)>>
    \o OptionLine("classifier", dep.classifier)
    \o <<KV("scope", dep.scope),
         KV("checksum", dep.checksum),
         KV("url", dep.url),
         KV("dependencies", dep.dependencies)>>

RECURSIVE EntriesLines(_, _, _)
EntriesLines(deps, keys, n) ==
    IF n > Len(keys) THEN <<>>
    ELSE EntryLines(keys[n], deps[keys[n]]) \o EntriesLines(deps, keys, n + 1)

\* toml::to_string_pretty(self) (lock.rs:81, derive(Serialize) lock.rs:7-32),
\* the entries in the map's iteration order `keys`
to_string_pretty(lf, keys) ==
    <<KV("version", lf.version)>>
    \o (IF Len(keys) = 0 THEN <<Table(<<"dependencies">>)>>
        ELSE EntriesLines(lf.dependencies, keys, 1))
    \o <<Table(<<"metadata">>),
         KV("created_at", lf.metadata.created_at),
         KV("updated_at", lf.metadata.updated_at),
         KV("total_dependencies", lf.metadata.total_dependencies),
         KV("total_size", lf.metadata.total_size)>>

\* the document as the TOML parser has read it so far
NoDocument ==
    [ok |-> TRUE, cur |-> <<>>, top |-> EmptyMap, has_deps |-> FALSE,
     deps |-> EmptyMap, has_meta |-> FALSE, meta |-> EmptyMap]

ParseTable(st, path) ==
    IF path = <<"dependencies">>
    THEN IF st.has_deps THEN [st EXCEPT !.ok = FALSE]
         ELSE [st EXCEPT !.has_deps = TRUE, !.cur = path]
    ELSE IF Len(path) = 2 /\ path[1] = "dependencies"
    THEN IF path[2] \in DOMAIN st.deps THEN [st EXCEPT !.ok = FALSE]
         ELSE [st EXCEPT !.has_deps = TRUE, !.cur = path,
                         !.deps = Insert(st.deps, path[2], EmptyMap)]
    ELSE IF path = <<"metadata">>
    THEN IF st.has_meta THEN [st EXCEPT !.ok = FALSE]
         ELSE [st EXCEPT !.has_meta = TRUE, !.cur = path]
    ELSE [st EXCEPT !.cur = path]

ParseKV(st, k, v) ==
    IF st.cur = <<>>
    THEN IF k \in DOMAIN st.top THEN [st EXCEPT !.ok = FALSE]
         ELSE [st EXCEPT !.top = Insert(st.top, k, v)]
    ELSE IF Len(st.cur) = 2 /\ st.cur[1] = "dependencies"
    THEN IF k \in DOMAIN st.deps[st.cur[2]] THEN [st EXCEPT !.ok = FALSE]
         ELSE [st EXCEPT !.deps[st.cur[2]] = Insert(st.deps[st.cur[2]], k, v)]
    ELSE IF st.cur = <<"metadata">>
    THEN IF k \in DOMAIN st.meta THEN [st EXCEPT !.ok = FALSE]
         ELSE [st EXCEPT !.meta = Insert(st.meta, k, v)]
    ELSE st

\* a line that is neither, such as the cut-off end of a torn write, is a
\* syntax error
ParseLine(st, line) ==
    IF ~st.ok THEN st
    ELSE IF line[1] = "table" THEN ParseTable(st, line[2])
    ELSE IF line[1] = "kv" THEN ParseKV(st, line[2], line[3])
    ELSE [st EXCEPT !.ok = FALSE]

RECURSIVE ParseLines(_, _, _)
ParseLines(content, n, st) ==
    IF n > Len(content) THEN st
    ELSE ParseLines(content, n + 1, ParseLine(st, content[n]))

EntryFields == {"group_id", "artifact_id", "version", "scope", "checksum", "url",
                "dependencies"}
MetadataFields == {"created_at", "updated_at", "total_dependencies", "total_size"}

\* derive(Deserialize) of LockedDependency (lock.rs:14-24): an absent Option
\* field reads as None
EntryOf(fields) ==
    [group_id |-> fields["group_id"], artifact_id |-> fields["artifact_id"],
     version |-> fields["version"],
     classifier |-> IF "classifier" \in DOMAIN fields THEN fields["classifier"] ELSE None,
     scope |-> fields["scope"], checksum |-> fields["checksum"],
     url |-> fields["url"], dependencies |-> fields["dependencies"]]

\* toml::from_str(&content) (lock.rs:89, derive(Deserialize) lock.rs:7-32)
from_str(content) ==
    LET doc == ParseLines(content, 1, NoDocument)
    IN  IF /\ doc.ok
           /\ "version" \in DOMAIN doc.top
           /\ doc.has_deps
           /\ \A k \in DOMAIN doc.deps : EntryFields \subseteq DOMAIN doc.deps[k]
           /\ doc.has_meta
           /\ MetadataFields \subseteq DOMAIN doc.meta
        THEN [kind |-> "Ok",
              value |-> [version |-> doc.top["version"],
                         dependencies |-> [k \in DOMAIN doc.deps |-> EntryOf(doc.deps[k])],
                         metadata |-> [created_at |-> doc.meta["created_at"],
                                       updated_at |-> doc.meta["updated_at"],
                                       total_dependencies |-> doc.meta["total_dependencies"],
                                       total_size |-> doc.meta["total_size"]]]]
        ELSE [kind |-> "Err"]

\* a load that answers a file it cannot read with a new store
load_or_new(f, t) ==
    IF f.exists /\ from_str(f.content).kind = "Ok"
    THEN from_str(f.content)
    ELSE [kind |-> "Ok", value |-> LockFile_new(t)]

\* LockFile::load (lock.rs:86-94) of the file f at instant t
load(f, t) ==
    IF f.exists
    THEN from_str(f.content)
    ELSE [kind |-> "Ok", value |-> LockFile_new(t)]

NoStore == [absent |-> TRUE]
NoFile == [exists |-> FALSE, content |-> <<>>, complete |-> FALSE, saved |-> NoStore]

\* the instants chrono::Utc::now() answers with (lock.rs:40-41, 52, 60)
Instants == {0, 1}

\* the coordinates a caller can name
Coordinates == { <<d.group_id, d.artifact_id, d.version>> : d \in LockedDependencies }

NoWrite == [active |-> FALSE, content |-> <<>>, was |-> NoFile]

LockInit ==
    /\ lock \in { LockFile_new(t) : t \in Instants }
    /\ disk = NoFile
    /\ lock_ret = [op |-> "none"]
    /\ writing = NoWrite
    /\ reader = [op |-> "none"]

\* the checksums and urls a caller can hand to update_checksum and update_url
Checksums == {"sha1", "sha256"}
Urls == {"https://repo/b.jar", "https://mirror/b.jar"}

AddDependency(dep, t) ==
    /\ lock' = add_dependency(lock, dep, t)
    /\ lock_ret' = [op |-> "add_dependency",
                    key |-> LockKey(dep.group_id, dep.artifact_id, dep.version),
                    existed |-> has_dependency(lock, dep.group_id, dep.artifact_id,
                                               dep.version)]
    /\ UNCHANGED <<disk, writing, reader, resolverVars, addVars, downloadVars>>

RemoveDependency(g, a, v, t) ==
    /\ lock' = remove_dependency(lock, g, a, v, t).store
    /\ lock_ret' = [op |-> "remove_dependency", key |-> LockKey(g, a, v),
                    removed |-> remove_dependency(lock, g, a, v, t).removed]
    /\ UNCHANGED <<disk, writing, reader, resolverVars, addVars, downloadVars>>

UpdateChecksum(g, a, v, checksum, t) ==
    /\ lock' = update_checksum(lock, g, a, v, checksum, t)
    /\ lock_ret' = [op |-> "update_checksum", key |-> LockKey(g, a, v), kind |-> "Ok"]
    /\ UNCHANGED <<disk, writing, reader, resolverVars, addVars, downloadVars>>

UpdateUrl(g, a, v, url, t) ==
    /\ lock' = update_url(lock, g, a, v, url, t)
    /\ lock_ret' = [op |-> "update_url", key |-> LockKey(g, a, v), kind |-> "Ok"]
    /\ UNCHANGED <<disk, writing, reader, resolverVars, addVars, downloadVars>>

\* the entries whose trees are asked for: a:b:1.0, g:x:1.0 and a:b:2.0 with
\* no edge, with edges to each other (a chain, a diamond, cycles) and an edge
\* to itself
TreeEntries ==
    { LockedDependency("a", "b", "1.0", None, edges) :
          edges \in { <<>>, <<"g:x:1.0">>, <<"g:x:1.0", "a:b:2.0">>,
                      <<"a:b:1.0", "g:x:1.0">> } }
    \cup { LockedDependency("g", "x", "1.0", None, edges) :
              edges \in { <<>>, <<"a:b:2.0">>, <<"a:b:1.0">> } }
    \cup { LockedDependency("a", "b", "2.0", None, edges) :
              edges \in { <<>>, <<"a:b:1.0">> } }

TreeCoordinates == { <<d.group_id, d.artifact_id, d.version>> : d \in TreeEntries }

\* get_dependency_tree (lock.rs:126-138), the map iterating in the order keys
GetDependencyTree(keys) ==
    /\ lock_ret' = [op |-> "tree", order |-> keys,
                    tree |-> get_dependency_tree(lock, keys)]
    /\ UNCHANGED <<lock, disk, writing, reader, resolverVars, addVars, downloadVars>>

\* LockFile::save (lock.rs:80-84), fs::write completing
Save ==
    /\ \E keys \in Orders(DOMAIN lock.dependencies) :
          disk' = [exists |-> TRUE, content |-> to_string_pretty(lock, keys),
                   complete |-> TRUE, saved |-> lock]
    /\ lock_ret' = [op |-> "save", kind |-> "Ok"]
    /\ UNCHANGED <<lock, writing, reader, resolverVars, addVars, downloadVars>>

\* LockFile::save whose fs::write fails before the last `lost` lines are
\* written (lock.rs:82): the file is left torn and save returns the error
SaveTorn(lost) ==
    /\ \E keys \in Orders(DOMAIN lock.dependencies) :
          LET content == to_string_pretty(lock, keys)
          IN  /\ lost <= Len(content)
              /\ disk' = [exists |-> TRUE,
                          content |-> SubSeq(content, 1, Len(content) - lost),
                          complete |-> FALSE, saved |-> NoStore]
    /\ lock_ret' = [op |-> "save", kind |-> "Err"]
    /\ UNCHANGED <<lock, writing, reader, resolverVars, addVars, downloadVars>>

\* fs::write of save (lock.rs:81-82), first step: the text is built and the
\* file at the path is created or truncated
SaveOpen ==
    /\ ~writing.active
    /\ \E keys \in Orders(DOMAIN lock.dependencies) :
          writing' = [active |-> TRUE, content |-> to_string_pretty(lock, keys),
                      was |-> disk]
    /\ disk' = [exists |-> TRUE, content |-> <<>>, complete |-> FALSE, saved |-> NoStore]
    /\ UNCHANGED <<lock, lock_ret, reader, resolverVars, addVars, downloadVars>>

\* fs::write of save (lock.rs:82), a write of the next n lines of the text
SaveWrite(n) ==
    /\ writing.active
    /\ Len(disk.content) + n <= Len(writing.content)
    /\ disk' = [disk EXCEPT !.content = SubSeq(writing.content, 1, Len(disk.content) + n)]
    /\ UNCHANGED <<lock, lock_ret, writing, reader, resolverVars, addVars, downloadVars>>

\* fs::write of save has written the whole text; save returns Ok (lock.rs:83)
SaveClose ==
    /\ writing.active
    /\ disk.content = writing.content
    /\ disk' = [disk EXCEPT !.complete = TRUE, !.saved = lock]
    /\ writing' = NoWrite
    /\ lock_ret' = [op |-> "save", kind |-> "Ok"]
    /\ UNCHANGED <<lock, reader, resolverVars, addVars, downloadVars>>

\* the process that saves changes its store between two saves
WriterAdd(dep, t) ==
    /\ ~writing.active
    /\ AddDependency(dep, t)

\* LockFile::load (lock.rs:86-94) in another process, of the file as it is at
\* the path now: whether it found a file and whether it could read a store
ReaderLoad(t) ==
    /\ reader' = [op |-> "load", kind |-> load(disk, t).kind, existed |-> disk.exists]
    /\ UNCHANGED <<lock, disk, lock_ret, writing, resolverVars, addVars, downloadVars>>

\* LockFile::load (lock.rs:86-94); the caller keeps the store it is given
Load(t) ==
    /\ lock_ret' = [op |-> "load", kind |-> load(disk, t).kind,
                    existed |-> disk.exists, at |-> t]
    /\ lock' = IF load(disk, t).kind = "Ok" THEN load(disk, t).value ELSE lock
    /\ UNCHANGED <<disk, writing, reader, resolverVars, addVars, downloadVars>>

(***************************************************************************)
(* src/commands/add.rs.  A string is the sequence of its characters; a     *)
(* fixed piece of text of the source (a section header, a tag) is one      *)
(* element of it.  A file is the sequence of its lines.                    *)
(***************************************************************************)
Absent == [exists |-> FALSE, lines |-> <<>>]
File(lines) == [exists |-> TRUE, lines |-> lines]
FileNames == {"jx.toml", "pom.xml", "build.gradle"}

\* the text before the first sep of s, and the text after it
RECURSIVE Before(_, _)
Before(s, sep) ==
    IF s = <<>> \/ Head(s) = sep THEN <<>> ELSE <<Head(s)>> \o Before(Tail(s), sep)
RECURSIVE After(_, _)
After(s, sep) ==
    IF Head(s) = sep THEN Tail(s) ELSE After(Tail(s), sep)

\* str::split(sep).collect() (add.rs:55)
RECURSIVE Split(_, _)
Split(s, sep) ==
    IF \E n \in DOMAIN s : s[n] = sep
    THEN <<Before(s, sep)>> \o Split(After(s, sep), sep)
    ELSE <<s>>

RECURSIVE Join(_, _)
Join(fields, sep) ==
    IF Len(fields) = 0 THEN <<>>
    ELSE IF Len(fields) = 1 THEN fields[1]
    ELSE fields[1] \o <<sep>> \o Join(Tail(fields), sep)

\* the texts a user types between the colons, and the strings typed
FieldTexts == { <<>>, <<"g">>, <<"a">> }
Inputs == { Join(fs, ":") : fs \in UNION { [1..k -> FieldTexts] : k \in 1..MaxFields } }
Scopes == { <<"compile">> }

\* a parser that takes the first three of three or more fields
parse_three_or_more(coordinate_str) ==
    LET parts == Split(coordinate_str, ":")
    IN  IF Len(parts) = 2
        THEN [kind |-> "Ok", group_id |-> parts[1], artifact_id |-> parts[2],
              version |-> <<>>]
        ELSE IF Len(parts) >= 3
        THEN [kind |-> "Ok", group_id |-> parts[1], artifact_id |-> parts[2],
              version |-> <<parts[3]>>]
        ELSE [kind |-> "Err", error |-> "InvalidCoordinate"]

\* parse_dependency_coordinate (add.rs:54-70); the Option<String> version is
\* <<>> for None and <<v>> for Some(v)
parse_dependency_coordinate(coordinate_str) ==
    LET parts == Split(coordinate_str, ":")
    IN  IF Len(parts) = 2
        THEN [kind |-> "Ok", group_id |-> parts[1], artifact_id |-> parts[2],
              version |-> <<>>]
        ELSE IF Len(parts) = 3
        THEN [kind |-> "Ok", group_id |-> parts[1], artifact_id |-> parts[2],
              version |-> <<parts[3]>>]
        ELSE [kind |-> "Err", error |-> "InvalidCoordinate"]

\* Vec::insert(at, line), at counted from 0
InsertAt(lines, at, line) ==
    SubSeq(lines, 1, at) \o line \o SubSeq(lines, at + 1, Len(lines))

\* position from 0 of the first line equal to text, or -1
FirstLine(lines, text) ==
    IF \E n \in DOMAIN lines : lines[n] = text
    THEN (CHOOSE n \in DOMAIN lines :
             lines[n] = text /\ \A m \in 1..(n - 1) : lines[m] # text) - 1
    ELSE -1

VersionOrStar(dep_info) == IF dep_info.version = <<>> THEN <<"*">> ELSE dep_info.version[1]

\* add_to_jx_config (add.rs:72-132): the file after it
add_to_jx_config(content, dep_info, scope) ==
    LET found == FirstLine(content, <<"[dependencies]">>)
        lines == IF found < 0 THEN Append(content, <<"[dependencies]">>) ELSE content
        dependencies_start == IF found < 0 THEN Len(lines) - 1 ELSE found
        dep_line == dep_info.group_id \o <<":">> \o dep_info.artifact_id
                    \o <<" = \"">> \o VersionOrStar(dep_info) \o <<"\"">>
    IN  [kind |-> "Ok", content |-> InsertAt(lines, dependencies_start + 1, <<dep_line>>)]

\* the scan of add_to_maven (add.rs:146-154) from line n on (from 0)
RECURSIVE MavenScan(_, _, _)
MavenScan(lines, n, st) ==
    IF n >= Len(lines) THEN st
    ELSE IF lines[n + 1] = <<"<dependencies>">>
    THEN MavenScan(lines, n + 1, [st EXCEPT !.in_dependencies = TRUE])
    ELSE IF st.in_dependencies /\ lines[n + 1] = <<"</dependencies>">>
    THEN [st EXCEPT !.dependencies_end = n]
    ELSE MavenScan(lines, n + 1, st)

\* add_to_maven (add.rs:134-181)
add_to_maven(content, dep_info, scope) ==
    LET st == MavenScan(content, 0, [in_dependencies |-> FALSE, dependencies_end |-> 0])
        dep_xml == << <<"<dependency>">>,
                      <<"<groupId>">> \o dep_info.group_id \o <<"</groupId>">>,
                      <<"<artifactId>">> \o dep_info.artifact_id \o <<"</artifactId>">>,
                      <<"<version>">> \o VersionOrStar(dep_info) \o <<"</version>">>,
                      <<"<scope>">> \o scope \o <<"</scope>">>,
                      <<"</dependency>">> >>
    IN  IF ~st.in_dependencies
        THEN [kind |-> "Err", error |-> "NoDependenciesSection"]
        ELSE [kind |-> "Ok", content |-> InsertAt(content, st.dependencies_end, dep_xml)]

\* add_to_gradle (add.rs:183-223)
add_to_gradle(content, dep_info, scope) ==
    LET found == FirstLine(content, <<"dependencies {">>)
        dep_line == IF dep_info.version = <<>>
                    THEN scope \o <<" '">> \o dep_info.group_id \o <<":">>
                         \o dep_info.artifact_id \o <<"'">>
                    ELSE scope \o <<" '">> \o dep_info.group_id \o <<":">>
                         \o dep_info.artifact_id \o <<":">> \o dep_info.version[1] \o <<"'">>
    IN  IF found < 0
        THEN [kind |-> "Err", error |-> "NoDependenciesSection"]
        ELSE [kind |-> "Ok", content |-> InsertAt(content, found + 1, <<dep_line>>)]

\* the config file execute picks (add.rs:9-17)
ConfigFile(fs) ==
    IF fs["jx.toml"].exists THEN "jx.toml"
    ELSE IF fs["pom.xml"].exists THEN "pom.xml"
    ELSE IF fs["build.gradle"].exists THEN "build.gradle"
    ELSE "none"

\* execute (add.rs:5-45): the outcome and the project directory after it
execute(fs, dependency, scope) ==
    LET config_file == ConfigFile(fs)
        dep_info == parse_dependency_coordinate(dependency)
        result == IF config_file = "jx.toml"
                  THEN add_to_jx_config(fs[config_file].lines, dep_info, scope)
                  ELSE IF config_file = "pom.xml"
                  THEN add_to_maven(fs[config_file].lines, dep_info, scope)
                  ELSE add_to_gradle(fs[config_file].lines, dep_info, scope)
    IN  IF config_file = "none"
        THEN [kind |-> "Err", error |-> "NoConfigFile", files |-> fs,
              dep_info |-> [kind |-> "NotParsed"]]
        ELSE IF dep_info.kind = "Err"
        THEN [kind |-> "Err", error |-> dep_info.error, files |-> fs,
              dep_info |-> dep_info]
        ELSE IF result.kind = "Err"
        THEN [kind |-> "Err", error |-> result.error, files |-> fs,
              dep_info |-> dep_info]
        ELSE [kind |-> "Ok", error |-> "none",
              files |-> [fs EXCEPT ![config_file] = File(result.content)],
              dep_info |-> dep_info]

\* the project directories the command is run in
JxToml == << <<"[project]">>, <<"[dependencies]">> >>
PomXml == << <<"<project>">>, <<"<dependencies>">>, <<"</dependencies>">>, <<"</project>">> >>
BuildGradle == << <<"plugins {">>, <<"}">>, <<"dependencies {">>, <<"}">> >>
NoFiles == [f \in FileNames |-> Absent]
Projects ==
    { NoFiles,
      [NoFiles EXCEPT !["jx.toml"] = File(JxToml)],
      [NoFiles EXCEPT !["jx.toml"] = File(<< <<"[project]">> >>)],
      [NoFiles EXCEPT !["pom.xml"] = File(PomXml)],
      [NoFiles EXCEPT !["pom.xml"] = File(<< <<"<project>">>, <<"</project>">> >>)],
      [NoFiles EXCEPT !["build.gradle"] = File(BuildGradle)],
      [NoFiles EXCEPT !["build.gradle"] = File(<< <<"plugins {">>, <<"}">> >>)],
      [NoFiles EXCEPT !["jx.toml"] = File(JxToml), !["pom.xml"] = File(PomXml)] }

AddInit ==
    /\ files \in Projects
    /\ runs = 0
    /\ add_ret = [op |-> "none"]

\* one run of `jx add <dependency>` (add.rs:5-45)
AddCommand(dependency, scope) ==
    /\ runs < MaxRuns
    /\ runs' = runs + 1
    /\ files' = execute(files, dependency, scope).files
    /\ add_ret' = [op |-> "add", dependency |-> dependency,
                   kind |-> execute(files, dependency, scope).kind,
                   error |-> execute(files, dependency, scope).error,
                   dep_info |-> execute(files, dependency, scope).dep_info,
                   before |-> files]
    /\ UNCHANGED <<resolverVars, lockVars, downloadVars>>

(***************************************************************************)
(* src/commands/remove.rs, on the files and strings of the add command     *)
(***************************************************************************)
\* str::trim: the text without the blanks at its ends
RECURSIVE TrimStart(_)
TrimStart(s) == IF s # <<>> /\ Head(s) = " " THEN TrimStart(Tail(s)) ELSE s
RECURSIVE TrimEnd(_)
TrimEnd(s) ==
    IF s # <<>> /\ s[Len(s)] = " " THEN TrimEnd(SubSeq(s, 1, Len(s) - 1)) ELSE s
Trim(s) == TrimEnd(TrimStart(s))

\* str::starts_with and str::contains
StartsWith(s, prefix) ==
    Len(prefix) <= Len(s) /\ SubSeq(s, 1, Len(prefix)) = prefix
Contains(s, sub) ==
    \E n \in 0..(Len(s) - Len(sub)) : SubSeq(s, n + 1, n + Len(sub)) = sub

\* Vec::remove of the lines from..to (from 0)
RemoveLines(lines, from, to) ==
    SubSeq(lines, 1, from) \o SubSeq(lines, to + 2, Len(lines))

\* parse_dependency_coordinate (remove.rs:52-62)
remove_parse_dependency_coordinate(coordinate_str) ==
    LET parts == Split(coordinate_str, ":")
    IN  IF Len(parts) = 2
        THEN [kind |-> "Ok", group_id |-> parts[1], artifact_id |-> parts[2]]
        ELSE [kind |-> "Err", error |-> "InvalidCoordinate"]

\* the while loop of remove_from_jx_config (remove.rs:75-84) from line i on
RECURSIVE JxRemoveScan(_, _, _)
JxRemoveScan(lines, i, dep_info) ==
    IF i >= Len(lines) THEN lines
    ELSE IF StartsWith(Trim(lines[i + 1]),
                       dep_info.group_id \o <<":">> \o dep_info.artifact_id)
    THEN RemoveLines(lines, i, i)
    ELSE JxRemoveScan(lines, i + 1, dep_info)

\* remove_from_jx_config (remove.rs:64-89)
remove_from_jx_config(content, dep_info) ==
    [kind |-> "Ok", content |-> JxRemoveScan(content, 0, dep_info)]

\* the while loop of remove_from_maven (remove.rs:101-123) from line i on; st
\* holds in_dependency and dependency_start
RECURSIVE MavenRemoveScan(_, _, _, _)
MavenRemoveScan(lines, i, st, dep_info) ==
    IF i >= Len(lines) THEN lines
    ELSE IF Trim(lines[i + 1]) = <<"<dependency>">>
    THEN MavenRemoveScan(lines, i + 1,
                         [in_dependency |-> TRUE, dependency_start |-> i], dep_info)
    ELSE IF st.in_dependency /\ Trim(lines[i + 1]) = <<"</dependency>">>
    THEN IF /\ \E n \in st.dependency_start..i :
                  Contains(lines[n + 1],
                           <<"<groupId>">> \o dep_info.group_id \o <<"</groupId>">>)
            /\ \E n \in st.dependency_start..i :
                  Contains(lines[n + 1],
                           <<"<artifactId>">> \o dep_info.artifact_id \o <<"</artifactId>">>)
         THEN RemoveLines(lines, st.dependency_start, i)
         ELSE MavenRemoveScan(lines, i + 1, [st EXCEPT !.in_dependency = FALSE], dep_info)
    ELSE MavenRemoveScan(lines, i + 1, st, dep_info)

\* remove_from_maven (remove.rs:91-128)
remove_from_maven(content, dep_info) ==
    [kind |-> "Ok",
     content |-> MavenRemoveScan(content, 0,
                                 [in_dependency |-> FALSE, dependency_start |-> 0],
                                 dep_info)]

\* the while loop of remove_from_gradle (remove.rs:137-145) from line i on
RECURSIVE GradleRemoveScan(_, _, _)
GradleRemoveScan(lines, i, dep_info) ==
    IF i >= Len(lines) THEN lines
    ELSE IF Contains(Trim(lines[i + 1]),
                     <<"'">> \o dep_info.group_id \o <<":">> \o dep_info.artifact_id)
    THEN RemoveLines(lines, i, i)
    ELSE GradleRemoveScan(lines, i + 1, dep_info)

\* remove_from_gradle (remove.rs:130-150)
remove_from_gradle(content, dep_info) ==
    [kind |-> "Ok", content |-> GradleRemoveScan(content, 0, dep_info)]

\* execute (remove.rs:5-44): the outcome and the project directory after it
remove_execute(fs, dependency) ==
    LET config_file == ConfigFile(fs)
        dep_info == remove_parse_dependency_coordinate(dependency)
        result == IF config_file = "jx.toml"
                  THEN remove_from_jx_config(fs[config_file].lines, dep_info)
                  ELSE IF config_file = "pom.xml"
                  THEN remove_from_maven(fs[config_file].lines, dep_info)
                  ELSE remove_from_gradle(fs[config_file].lines, dep_info)
    IN  IF config_file = "none"
        THEN [kind |-> "Err", error |-> "NoConfigFile", files |-> fs,
              dep_info |-> [kind |-> "NotParsed"]]
        ELSE IF dep_info.kind = "Err"
        THEN [kind |-> "Err", error |-> dep_info.error, files |-> fs,
              dep_info |-> dep_info]
        ELSE [kind |-> "Ok", error |-> "none",
              files |-> [fs EXCEPT ![config_file] = File(result.content)],
              dep_info |-> dep_info]

\* the dependency strings typed at a project's config: g:a, g:ab and h:a,
\* with and without a version, and a string of one field
ConfigInputs ==
    { <<"g", ":", "a">>, <<"g", ":", "a", ":", "1">>, <<"g", ":", "a", "b", ":", "1">>,
      <<"g", ":", "a", "b">>, <<"h", ":", "a", ":", "1">>, <<"h", ":", "a">>, <<"g">> }

\* the project directories the two commands are run in
ConfigProjects ==
    { NoFiles,
      [NoFiles EXCEPT !["jx.toml"] = File(JxToml)],
      [NoFiles EXCEPT !["pom.xml"] = File(PomXml)],
      [NoFiles EXCEPT !["build.gradle"] = File(BuildGradle)] }

ConfigInit ==
    /\ files \in ConfigProjects
    /\ runs = 0
    /\ add_ret = [op |-> "none"]

\* one run of `jx add <dependency>` among the runs on a project (add.rs:5-45)
ConfigAdd(dependency, scope) ==
    /\ runs < MaxEdits
    /\ runs' = runs + 1
    /\ files' = execute(files, dependency, scope).files
    /\ add_ret' = [op |-> "add", dependency |-> dependency,
                   kind |-> execute(files, dependency, scope).kind,
                   error |-> execute(files, dependency, scope).error,
                   dep_info |-> execute(files, dependency, scope).dep_info,
                   before |-> files]
    /\ UNCHANGED <<resolverVars, lockVars, downloadVars>>

\* one run of `jx remove <dependency>` (remove.rs:5-44)
ConfigRemove(dependency) ==
    /\ runs < MaxEdits
    /\ runs' = runs + 1
    /\ files' = remove_execute(files, dependency).files
    /\ add_ret' = [op |-> "remove", dependency |-> dependency,
                   kind |-> remove_execute(files, dependency).kind,
                   error |-> remove_execute(files, dependency).error,
                   dep_info |-> remove_execute(files, dependency).dep_info,
                   before |-> files]
    /\ UNCHANGED <<resolverVars, lockVars, downloadVars>>

(***************************************************************************)
(* src/download.rs and src/install.rs.  A file is the number of chunks of  *)
(* the artifact written to it; the artifact has MaxChunks chunks.          *)
(***************************************************************************)
NoArtifact == [exists |-> FALSE, written |-> 0]

\* Downloader::new (download.rs:14-17)
CacheDir == "~/.jx/cache"

\* the file name of download_dependency (download.rs:30-34)
CacheFilename(artifact_id, version, classifier) ==
    IF classifier # None
    THEN artifact_id \o "-" \o version \o "-" \o classifier \o ".jar"
    ELSE artifact_id \o "-" \o version \o ".jar"

\* the cache path of download_dependency (download.rs:36-39)
CachePath(group_id, artifact_id, version, classifier) ==
    CacheDir \o "/" \o group_id \o "/" \o artifact_id \o "/"
    \o CacheFilename(artifact_id, version, classifier)

\* Dependency::filename (dependency.rs:75-81)
filename(d) ==
    IF d.classifier # None
    THEN d.artifact_id \o "-" \o d.version \o "-" \o d.classifier \o ".jar"
    ELSE d.artifact_id \o "-" \o d.version \o ".jar"

\* the dependencies downloaded and installed
Artifacts == { DepAB1, with_classifier(DepAB1, "sources") }
CachePaths ==
    { CachePath(d.group_id, d.artifact_id, d.version, d.classifier) : d \in Artifacts }
LibNames == { filename(d) : d \in Artifacts }

NoDownload == [pc |-> "idle", path |-> ""]
NoInstall == [active |-> FALSE, dependencies |-> <<>>, idx |-> 1]

\* Downloader::new and Installer::new, empty cache and lib directories
DownloadInit ==
    /\ cache = [p \in CachePaths |-> NoArtifact]
    /\ lib = [f \in LibNames |-> NoArtifact]
    /\ dl = NoDownload
    /\ inst = NoInstall
    /\ dl_ret = [op |-> "none", kind |-> "", path |-> ""]

\* download_dependency returns Ok(cache_path) to its caller: to the user, or
\* to install_dependencies, which copies the file into lib and goes on with
\* the next dependency (install.rs:28-36)
ReturnOk(path) ==
    IF inst.active
    THEN /\ lib' = [lib EXCEPT ![filename(inst.dependencies[inst.idx])] = cache[path]]
         /\ inst' = [inst EXCEPT !.idx = @ + 1]
         /\ UNCHANGED dl_ret
    ELSE /\ dl_ret' = [op |-> "download", kind |-> "Ok", path |-> path]
         /\ UNCHANGED <<lib, inst>>

\* download_dependency returns an error: to the user, or to
\* install_dependencies, which returns it (the ? of install.rs:30)
ReturnErr ==
    IF inst.active
    THEN /\ inst' = NoInstall
         /\ dl_ret' = [op |-> "install", kind |-> "Err", path |-> ""]
         /\ UNCHANGED lib
    ELSE /\ dl_ret' = [op |-> "download", kind |-> "Err", path |-> ""]
         /\ UNCHANGED <<lib, inst>>

\* download_dependency up to the request (download.rs:19-61): a file at the
\* cache path is a cache hit
DownloadEnter(d) ==
    LET cache_path == CachePath(d.group_id, d.artifact_id, d.version, d.classifier)
    IN  IF cache[cache_path].exists
        THEN /\ ReturnOk(cache_path)
             /\ UNCHANGED <<cache, dl>>
        ELSE /\ dl' = [pc |-> "send", path |-> cache_path]
             /\ UNCHANGED <<cache, lib, inst, dl_ret>>

\* a call of download_dependency by the user
DownloadCall(d) ==
    /\ dl.pc = "idle"
    /\ ~inst.active
    /\ DownloadEnter(d)
    /\ UNCHANGED <<resolverVars, lockVars, addVars>>

\* install_dependencies up to its loop (install.rs:15-21)
InstallCall(dependencies) ==
    /\ dl.pc = "idle"
    /\ ~inst.active
    /\ inst' = [active |-> TRUE, dependencies |-> dependencies, idx |-> 1]
    /\ UNCHANGED <<cache, lib, dl, dl_ret, resolverVars, lockVars, addVars>>

\* one turn of the loop of install_dependencies up to the download
\* (install.rs:23-30)
InstallDownload ==
    /\ inst.active
    /\ dl.pc = "idle"
    /\ inst.idx <= Len(inst.dependencies)
    /\ DownloadEnter(inst.dependencies[inst.idx])
    /\ UNCHANGED <<resolverVars, lockVars, addVars>>

\* install_dependencies returns Ok (install.rs:39-41)
InstallReturn ==
    /\ inst.active
    /\ dl.pc = "idle"
    /\ inst.idx > Len(inst.dependencies)
    /\ inst' = NoInstall
    /\ dl_ret' = [op |-> "install", kind |-> "Ok", path |-> ""]
    /\ UNCHANGED <<cache, lib, dl, resolverVars, lockVars, addVars>>

\* the request is answered (download.rs:61-74): ok, or the send fails, the
\* status is no success or the length is missing
DownloadSend(ok) ==
    /\ dl.pc = "send"
    /\ IF ok
       THEN /\ dl' = [dl EXCEPT !.pc = "create"]
            /\ UNCHANGED <<lib, inst, dl_ret>>
       ELSE /\ dl' = NoDownload
            /\ ReturnErr
    /\ UNCHANGED <<cache, resolverVars, lockVars, addVars>>

\* File::create(&cache_path) (download.rs:87-89) makes the empty file, or fails
DownloadCreate(ok) ==
    /\ dl.pc = "create"
    /\ IF ok
       THEN /\ cache' = [cache EXCEPT ![dl.path] = [exists |-> TRUE, written |-> 0]]
            /\ dl' = [dl EXCEPT !.pc = "stream"]
            /\ UNCHANGED <<lib, inst, dl_ret>>
       ELSE /\ dl' = NoDownload
            /\ ReturnErr
            /\ UNCHANGED cache
    /\ UNCHANGED <<resolverVars, lockVars, addVars>>

\* one turn of the while loop (download.rs:95-100): the next chunk comes and
\* is written, or the stream or the write fails and the call returns the error
DownloadChunk(ok) ==
    /\ dl.pc = "stream"
    /\ cache[dl.path].written < MaxChunks
    /\ IF ok
       THEN /\ cache' = [cache EXCEPT ![dl.path].written = @ + 1]
            /\ UNCHANGED <<dl, lib, inst, dl_ret>>
       ELSE /\ dl' = NoDownload
            /\ ReturnErr
            /\ UNCHANGED cache
    /\ UNCHANGED <<resolverVars, lockVars, addVars>>

\* the stream has ended; flush and Ok(cache_path) (download.rs:95, 103-110)
DownloadFinish ==
    /\ dl.pc = "stream"
    /\ cache[dl.path].written = MaxChunks
    /\ dl' = NoDownload
    /\ ReturnOk(dl.path)
    /\ UNCHANGED <<cache, resolverVars, lockVars, addVars>>

(***************************************************************************)
(* Specifications: the resolver, the lock store and the add command, each  *)
(* with the other two at rest.                                             *)
(***************************************************************************)
ResolverAtRest ==
    /\ resolved = EmptyMap
    /\ unresolved = {}
    /\ in_progress = {}
    /\ pc = "idle"
    /\ specs = <<>>
    /\ idx = 1
    /\ resolved_deps = <<>>
    /\ expansions = [k \in Keys |-> 0]
    /\ fresh = TRUE
    /\ prev = NoPrev
    /\ ret = NoRet
    /\ metadata = NoEdges
    /\ unavailable = {}

LockAtRest ==
    /\ lock = LockFile_new(0)
    /\ disk = NoFile
    /\ lock_ret = [op |-> "none"]
    /\ writing = NoWrite
    /\ reader = [op |-> "none"]

AddAtRest ==
    /\ files = NoFiles
    /\ runs = 0
    /\ add_ret = [op |-> "none"]

DownloadAtRest == DownloadInit

ResolverStart == ResolverInit /\ LockAtRest /\ AddAtRest /\ DownloadAtRest

ResolverNext ==
    \/ \E dependencies \in SeqsUpTo(Dependencies, MaxSpecs) : ResolveCall(dependencies)
    \/ ResolveBegin
    \/ ResolveFinish
    \/ ResolveReturn
    \/ Clear
    \/ Recover
    \/ GetResolutionOrder
    \/ DetectConflicts

SpecResolver == ResolverStart /\ [][ResolverNext]_vars

LockStart == LockInit /\ ResolverAtRest /\ AddAtRest /\ DownloadAtRest

LockNext ==
    \/ \E dep \in LockedDependencies : \E t \in Instants : AddDependency(dep, t)
    \/ \E c \in Coordinates : \E t \in Instants : RemoveDependency(c[1], c[2], c[3], t)
    \/ Save
    \/ \E lost \in 1..MaxTorn : SaveTorn(lost)
    \/ \E t \in Instants : Load(t)

SpecLock == LockStart /\ [][LockNext]_vars

\* the store in memory alone: every operation that changes it
StoreNext ==
    \/ \E dep \in LockedDependencies : \E t \in Instants : AddDependency(dep, t)
    \/ \E c \in Coordinates : \E t \in Instants : RemoveDependency(c[1], c[2], c[3], t)
    \/ \E c \in Coordinates : \E checksum \in Checksums : \E t \in Instants :
          UpdateChecksum(c[1], c[2], c[3], checksum, t)
    \/ \E c \in Coordinates : \E url \in Urls : \E t \in Instants :
          UpdateUrl(c[1], c[2], c[3], url, t)

SpecStore == LockStart /\ [][StoreNext]_vars

\* the store in memory and its dependency tree
TreeNext ==
    \/ \E dep \in TreeEntries : \E t \in Instants : AddDependency(dep, t)
    \/ \E c \in TreeCoordinates : \E t \in Instants :
          RemoveDependency(c[1], c[2], c[3], t)
    \/ \E keys \in Orders(DOMAIN lock.dependencies) : GetDependencyTree(keys)

SpecTree == LockStart /\ [][TreeNext]_vars

\* one process saving its store and another loading the same path
ConcurrentNext ==
    \/ \E dep \in LockedDependencies : \E t \in Instants : WriterAdd(dep, t)
    \/ SaveOpen
    \/ \E n \in 1..MaxWrite : SaveWrite(n)
    \/ SaveClose
    \/ \E t \in Instants : ReaderLoad(t)

SpecConcurrent == LockStart /\ [][ConcurrentNext]_vars

AddStart == AddInit /\ ResolverAtRest /\ LockAtRest /\ DownloadAtRest

\* the add and remove commands run one after another on one project
ConfigStart == ConfigInit /\ ResolverAtRest /\ LockAtRest /\ DownloadAtRest

ConfigNext ==
    \/ \E dependency \in ConfigInputs : \E scope \in Scopes : ConfigAdd(dependency, scope)
    \/ \E dependency \in ConfigInputs : ConfigRemove(dependency)

SpecConfig == ConfigStart /\ [][ConfigNext]_vars

\* downloads and installs, one call at a time
DownloadStart == DownloadInit /\ ResolverAtRest /\ LockAtRest /\ AddAtRest

DownloadNext ==
    \/ \E d \in Artifacts : DownloadCall(d)
    \/ \E dependencies \in SeqsUpTo(Artifacts, MaxInstall) : InstallCall(dependencies)
    \/ InstallDownload
    \/ InstallReturn
    \/ \E ok \in BOOLEAN : DownloadSend(ok)
    \/ \E ok \in BOOLEAN : DownloadCreate(ok)
    \/ \E ok \in BOOLEAN : DownloadChunk(ok)
    \/ DownloadFinish

SpecDownload == DownloadStart /\ [][DownloadNext]_vars

AddNext ==
    \E dependency \in Inputs : \E scope \in Scopes : AddCommand(dependency, scope)

SpecAdd == AddStart /\ [][AddNext]_vars

(***************************************************************************)
(* Claims about the resolver                                               *)
(***************************************************************************)
\* position of key k in the list of keys l (0 when absent)
IndexOf(l, k) == IF \E n \in DOMAIN l : l[n] = k
                 THEN CHOOSE n \in DOMAIN l : l[n] = k ELSE 0

Acyclic(md) == \A k \in Keys : ~OnCycle(md, k)

\* keys on a cycle of md that the specs sp reach
CyclicBranch(md, sp) ==
    { c \in Keys : /\ OnCycle(md, c)
                   /\ \E n \in DOMAIN sp :
                         c \in {coordinate(sp[n])} \cup Requires(md, coordinate(sp[n])) }

\* positions of sp whose spec requires key k, directly or transitively
Requiring(md, sp, k) ==
    { n \in DOMAIN sp : k \in {coordinate(sp[n])} \cup Requires(md, coordinate(sp[n])) }

Excludes(d, k) ==
    \E n \in DOMAIN d.exclusions :
        \E v \in {"1.0", "2.0"} :
            k = d.exclusions[n].group_id \o ":" \o d.exclusions[n].artifact_id \o ":" \o v

\* C1: a resolve call whose specs reach a dependency cycle (A requires B and
\* B requires A) returns the cycle error, returns no partial list, and leaves
\* no key of the cyclic branch in the resolved memo.
C1_CycleFailsResolve ==
    (ret.op = "resolve" /\ CyclicBranch(metadata, ret.specs) # {}) =>
        /\ ret.kind = "Err"
        /\ ret.error = "Cycle"
        /\ ret.list = <<>>
        /\ CyclicBranch(metadata, ret.specs) \cap DOMAIN resolved = {}

\* C2: when a resolve call on a new resolver returns, every key that two or
\* more specs require, directly or transitively, has its one entry in the
\* resolved memo and was expanded exactly once.
C2_DiamondExpandedOnce ==
    [][(ResolveReturn /\ fresh) =>
          \A k \in Keys :
              Cardinality(Requiring(metadata, specs, k)) >= 2 =>
                  (k \in DOMAIN resolved /\ expansions[k] = 1)]_vars

\* C3: detect_conflicts reports a VersionConflict naming both versions for
\* every (group, artifact) resolved in more than one version.
C3_ConflictsReported ==
    ret.op = "conflicts" =>
        \A k1, k2 \in DOMAIN resolved :
            (/\ resolved[k1].group_id = resolved[k2].group_id
             /\ resolved[k1].artifact_id = resolved[k2].artifact_id
             /\ resolved[k1].version # resolved[k2].version) =>
                \E n \in DOMAIN ret.list :
                    /\ ret.list[n].conflict_type = "VersionConflict"
                    /\ ret.list[n].group_id = resolved[k1].group_id
                    /\ ret.list[n].artifact_id = resolved[k1].artifact_id
                    /\ \E i, j \in DOMAIN ret.list[n].versions :
                          /\ ret.list[n].versions[i] = resolved[k1].version
                          /\ ret.list[n].versions[j] = resolved[k2].version

\* C4: in the list get_resolution_order returns, a resolved key that another
\* resolved key depends on comes before that key.
C4_DependenciesFirst ==
    (ret.op = "order" /\ Acyclic(metadata)) =>
        \A a, b \in DOMAIN resolved :
            b \in metadata[a] =>
                /\ IndexOf(ret.list, a) > 0
                /\ IndexOf(ret.list, b) > 0
                /\ IndexOf(ret.list, b) < IndexOf(ret.list, a)

\* C6: a resolve call that follows a resolve call with the same specs, on the
\* same resolver or on a cleared one, returns the same set of coordinate keys.
C6_ResolveIdempotent ==
    (ret.op = "resolve" /\ prev.valid) =>
        /\ ret.specs = prev.specs
        /\ ret.kind = prev.kind
        /\ ret.keys = prev.keys

\* the second of two calls with the same two-key specs has returned, the
\* resolver not having been cleared in between
C6_Witness ==
    /\ ret.op = "resolve"
    /\ prev.valid
    /\ ~fresh
    /\ Cardinality(ret.keys) = 2
    /\ pc = "idle"

\* C7: a key that a spec excludes and transitively requires is absent from
\* the result of resolve, unless another spec that does not exclude it
\* requires it too, and then it is present.
C7_ExclusionPruned ==
    (ret.op = "resolve" /\ ret.kind = "Ok") =>
        \A n \in DOMAIN ret.specs : \A k \in Keys :
            (/\ Excludes(ret.specs[n], k)
             /\ k \in Requires(metadata, coordinate(ret.specs[n]))) =>
                IF \E m \in Requiring(metadata, ret.specs, k) : ~Excludes(ret.specs[m], k)
                THEN k \in ret.keys
                ELSE k \notin ret.keys
\* C13: the list a resolve call returns holds each coordinate key at most
\* once, also when several specs name the same coordinate.
C13_NoDuplicateKeys ==
    (ret.op = "resolve" /\ ret.kind = "Ok") =>
        \A i, j \in DOMAIN ret.list :
            coordinate(ret.list[i]) = coordinate(ret.list[j]) => i = j

\* C17: a resolve call made while the repository's lookup for one of its
\* coordinates fails returns an error and leaves that coordinate neither
\* marked resolved nor in progress, so that the same call can be retried on
\* the same resolver once the lookup answers.
C17_FailedLookupRetryable ==
    (ret.op = "resolve" /\ unavailable # {}) =>
        \A n \in DOMAIN ret.specs :
            coordinate(ret.specs[n]) \in unavailable =>
                /\ ret.kind = "Err"
                /\ coordinate(ret.specs[n]) \notin DOMAIN resolved
                /\ coordinate(ret.specs[n]) \notin in_progress

\* C15: the list get_resolution_order returns is the same whatever order
\* the map of resolved entries iterates in: it depends on the resolved set
\* alone.
C15_OrderDeterministic ==
    [][ GetResolutionOrder =>
            \A keys \in Orders(DOMAIN resolved) :
                get_resolution_order(keys) = ret'.list ]_vars

\* C21: on every step of a resolve call no key is in in_progress and in
\* resolved at once; a key enters in_progress only when it is in neither set,
\* enters resolved only from in_progress, leaves in_progress only into
\* resolved, and never leaves resolved.
C21_KeyStateMachine ==
    [][ (pc # "idle" \/ pc' # "idle") =>
            /\ in_progress' \cap DOMAIN resolved' = {}
            /\ \A k \in Keys :
                  /\ (k \in in_progress' /\ k \notin in_progress)
                        => k \notin DOMAIN resolved
                  /\ (k \in DOMAIN resolved' /\ k \notin DOMAIN resolved)
                        => k \in in_progress
                  /\ (k \in in_progress /\ k \notin in_progress')
                        => k \in DOMAIN resolved'
                  /\ k \in DOMAIN resolved => k \in DOMAIN resolved' ]_vars

\* within one call one key is resolved and the next is in progress
C21_Witness ==
    /\ pc = "transitive"
    /\ DOMAIN resolved = {"a:b:1.0"}
    /\ in_progress = {"g:x:1.0"}
    /\ idx = 2

\* keys get_resolution_order may leave out: those on a cycle of the metadata
\* and those a key on a cycle requires
CyclicOrBehind(md, S) ==
    { k \in S : OnCycle(md, k) \/ \E c \in S : OnCycle(md, c) /\ k \in Requires(md, c) }

C26_OrderIsPermutation ==
    (ret.op = "order" /\ Acyclic(metadata)) =>
        /\ Len(ret.list) = Cardinality(DOMAIN resolved)
        /\ \A k \in DOMAIN resolved : \E n \in DOMAIN ret.list : ret.list[n] = k
        /\ \A n \in DOMAIN ret.list : ret.list[n] \in DOMAIN resolved

\* the order of three resolved keys of a diamond has been returned
C26_Witness ==
    /\ ret.op = "order"
    /\ Acyclic(metadata)
    /\ metadata["a:b:2.0"] = {"g:x:1.0"}
    /\ Len(ret.list) = 3
    /\ DOMAIN resolved = {"a:b:1.0", "a:b:2.0", "g:x:1.0"}

(***************************************************************************)
(* Claims about the lock store                                             *)
(***************************************************************************)
\* C5: loading the file a completed save wrote yields the store that was
\* saved: same format version, same entries under the same keys with the
\* same fields and edges, same metadata values.
C5_RoundTrip ==
    (lock_ret.op = "load" /\ disk.complete) =>
        /\ lock_ret.kind = "Ok"
        /\ lock.version = disk.saved.version
        /\ DOMAIN lock.dependencies = DOMAIN disk.saved.dependencies
        /\ \A k \in DOMAIN lock.dependencies :
              lock.dependencies[k] = disk.saved.dependencies[k]
        /\ lock.metadata = disk.saved.metadata

\* a saved store of two entries, one with a classifier and one without, one
\* with an edge, changed after it was created, has been loaded
C5_Witness ==
    /\ lock_ret.op = "load"
    /\ disk.complete
    /\ DOMAIN lock.dependencies = {"a:b:1.0", "g:x:1.0"}
    /\ lock.dependencies["a:b:1.0"].dependencies = <<"g:x:1.0">>
    /\ lock.dependencies["a:b:1.0"].classifier = None
    /\ lock.metadata.created_at # lock.metadata.updated_at
    /\ lock.metadata.total_dependencies = 2

\* C10: load of a path with no file returns a new empty store and no error;
\* load of a file that exists and is malformed (a torn write) returns an
\* error and hands out no store, the caller's store staying as it was.
C10_LoadOutcomes ==
    lock_ret.op = "load" =>
        /\ ~lock_ret.existed =>
              /\ lock_ret.kind = "Ok"
              /\ lock.version = "1.0"
              /\ DOMAIN lock.dependencies = {}
              /\ lock.metadata = [created_at |-> lock_ret.at, updated_at |-> lock_ret.at,
                                  total_dependencies |-> 0, total_size |-> 0]
        /\ (lock_ret.existed /\ ~disk.complete) => lock_ret.kind = "Err"

\* a torn file that still holds a whole entry has been loaded by a process
\* whose own store has entries
C10_Witness ==
    /\ lock_ret.op = "load"
    /\ lock_ret.existed
    /\ ~disk.complete
    /\ lock_ret.kind = "Err"
    /\ \E n \in DOMAIN disk.content : disk.content[n] = KV("dependencies", <<>>)
    /\ DOMAIN lock.dependencies # {}

\* C11: after every upsert and every remove on a store created empty, the
\* metadata count equals the number of entries; an upsert on a key that is
\* already there replaces the entry and leaves the count as it was.
C11_CountMatchesEntries ==
    [][ /\ lock'.metadata.total_dependencies = Cardinality(DOMAIN lock'.dependencies)
        /\ \A dep \in LockedDependencies : \A t \in Instants :
              (/\ AddDependency(dep, t)
               /\ has_dependency(lock, dep.group_id, dep.artifact_id, dep.version))
              => /\ lock'.metadata.total_dependencies = lock.metadata.total_dependencies
                 /\ DOMAIN lock'.dependencies = DOMAIN lock.dependencies
                 /\ get_dependency(lock', dep.group_id, dep.artifact_id, dep.version)
                       = <<dep>> ]_vars

\* an upsert has replaced the entry under a:b:1.0 by the one with the
\* classifier, the store holding two entries
C11_Witness ==
    /\ lock_ret.op = "add_dependency"
    /\ lock_ret.existed
    /\ lock_ret.key = "a:b:1.0"
    /\ DOMAIN lock.dependencies = {"a:b:1.0", "g:x:1.0"}
    /\ lock.dependencies["a:b:1.0"].classifier = "sources"
    /\ lock.metadata.total_dependencies = 2

\* C12: remove_dependency returns true exactly when the key was in the store
\* before the call; after it has_dependency is false and get_dependency is
\* None for that coordinate, and every other entry is as it was.
C12_RemoveContract ==
    [][ \A c \in Coordinates : \A t \in Instants :
          RemoveDependency(c[1], c[2], c[3], t)
          => /\ lock_ret'.removed = has_dependency(lock, c[1], c[2], c[3])
             /\ ~has_dependency(lock', c[1], c[2], c[3])
             /\ get_dependency(lock', c[1], c[2], c[3]) = <<>>
             /\ DOMAIN lock'.dependencies = DOMAIN lock.dependencies \ {LockKey(c[1], c[2], c[3])}
             /\ \A k \in DOMAIN lock'.dependencies :
                   lock'.dependencies[k] = lock.dependencies[k] ]_vars

\* a:b:1.0 has been removed from a store that still holds g:x:1.0
C12_Witness ==
    /\ lock_ret.op = "remove_dependency"
    /\ lock_ret.removed
    /\ lock_ret.key = "a:b:1.0"
    /\ DOMAIN lock.dependencies = {"g:x:1.0"}
    /\ lock.metadata.total_dependencies = 1

\* C14: the text save writes is the same whatever order the map of entries
\* iterates in: it depends on the content of the store alone, so saving an
\* unchanged store again writes the same bytes.
C14_SaveDeterministic ==
    [][ Save =>
            \A keys \in Orders(DOMAIN lock.dependencies) :
                to_string_pretty(lock, keys) = disk'.content ]_vars

\* C16: in every store a completed save has written, every key listed in an
\* entry's transitive edges is a key of the store's entries.
C16_NoDanglingEdges ==
    disk.complete =>
        \A k \in DOMAIN disk.saved.dependencies :
            \A n \in DOMAIN disk.saved.dependencies[k].dependencies :
                disk.saved.dependencies[k].dependencies[n] \in DOMAIN disk.saved.dependencies

\* C18: a load that runs while another process saves to the same path finds
\* the complete file from before the save, the complete new file, or no
\* file; never a part of the new file.
C18_AtomicWrite ==
    [][ \A t \in Instants :
          (ReaderLoad(t) /\ writing.active) =>
              \/ ~disk.exists
              \/ (disk.exists = writing.was.exists /\ disk.content = writing.was.content)
              \/ disk.content = writing.content ]_vars

\* the number of nodes of the subtree at node, and of the forest tree from
\* position n on, that are the entry with key k
RECURSIVE NodesOf(_, _)
RECURSIVE NodesIn(_, _, _)
NodesOf(node, k) ==
    (IF locked_coordinate(node.dependency) = k THEN 1 ELSE 0)
    + NodesIn(node.children, 1, k)
NodesIn(tree, n, k) ==
    IF n > Len(tree) THEN 0
    ELSE NodesOf(tree[n], k) + NodesIn(tree, n + 1, k)

\* every node of the subtree at node has the depth of its place, d at the top
RECURSIVE DepthsFrom(_, _)
DepthsFrom(node, d) ==
    /\ node.depth = d
    /\ \A n \in DOMAIN node.children : DepthsFrom(node.children[n], d + 1)

\* the keys, depths and children of a subtree, without the entries' fields
RECURSIVE ShapeOf(_)
ShapeOf(node) ==
    [key |-> locked_coordinate(node.dependency), depth |-> node.depth,
     children |-> [n \in DOMAIN node.children |-> ShapeOf(node.children[n])]]

\* the store lf without the edges whose target is not an entry of it
WithoutDangling(lf) ==
    [lf EXCEPT !.dependencies =
        [k \in DOMAIN lf.dependencies |->
            LET Present(e) == e \in DOMAIN lf.dependencies
            IN  [lf.dependencies[k] EXCEPT !.dependencies = SelectSeq(@, Present)]]]

HasDangling(lf) ==
    \E k \in DOMAIN lf.dependencies : \E n \in DOMAIN lf.dependencies[k].dependencies :
        lf.dependencies[k].dependencies[n] \notin DOMAIN lf.dependencies

C24_DanglingEdgeSkipped ==
    [][ \A keys \in Orders(DOMAIN lock.dependencies) :
          GetDependencyTree(keys) =>
              /\ lock' = lock
              /\ [n \in DOMAIN lock_ret'.tree |-> ShapeOf(lock_ret'.tree[n])]
                    = LET pruned == get_dependency_tree(WithoutDangling(lock), keys)
                      IN  [n \in DOMAIN pruned |-> ShapeOf(pruned[n])] ]_vars

\* the tree of a store in which a:b:1.0 lists g:x:1.0, which is missing, and
\* then a:b:2.0, which is there, has been returned with a:b:2.0 under a:b:1.0
C24_Witness ==
    /\ lock_ret.op = "tree"
    /\ DOMAIN lock.dependencies = {"a:b:1.0", "a:b:2.0"}
    /\ lock.dependencies["a:b:1.0"].dependencies = <<"g:x:1.0", "a:b:2.0">>
    /\ HasDangling(lock)
    /\ Len(lock_ret.tree) = 1
    /\ Len(lock_ret.tree[1].children) = 1

C28_AbsentKeyNoChange ==
    [][ \A c \in Coordinates : \A t \in Instants :
          ~has_dependency(lock, c[1], c[2], c[3]) =>
              /\ RemoveDependency(c[1], c[2], c[3], t)
                    => (lock' = lock /\ lock_ret'.removed = FALSE)
              /\ \A checksum \in Checksums :
                    UpdateChecksum(c[1], c[2], c[3], checksum, t)
                        => (lock' = lock /\ lock_ret'.kind = "Ok")
              /\ \A url \in Urls :
                    UpdateUrl(c[1], c[2], c[3], url, t)
                        => (lock' = lock /\ lock_ret'.kind = "Ok") ]_vars

\* update_checksum for g:x:1.0 has returned on a store that holds a:b:1.0
\* alone and was last changed at another instant than it was created
C28_Witness ==
    /\ lock_ret.op = "update_checksum"
    /\ lock_ret.key = "g:x:1.0"
    /\ DOMAIN lock.dependencies = {"a:b:1.0"}
    /\ lock.metadata.total_dependencies = 1
    /\ lock.metadata.updated_at # lock.metadata.created_at

\* the identity of an entry as the specification has it: group, artifact,
\* version and classifier
Identity(dep) == <<dep.group_id, dep.artifact_id, dep.version, dep.classifier>>

\* C19: an upsert leaves every entry of another identity (group, artifact,
\* version, classifier) in the store: two entries that differ in the
\* classifier alone are kept side by side.
C19_ClassifierInIdentity ==
    [][ \A dep \in LockedDependencies : \A t \in Instants :
          AddDependency(dep, t)
          => \A k \in DOMAIN lock.dependencies :
                Identity(lock.dependencies[k]) # Identity(dep)
                => \E k2 \in DOMAIN lock'.dependencies :
                      lock'.dependencies[k2] = lock.dependencies[k] ]_vars

\* C20: every step that changes the entries or a field of an entry sets
\* updated_at to the instant of that step, and no step changes created_at.
C20_UpdatedAtTouched ==
    [][ /\ lock'.metadata.created_at = lock.metadata.created_at
        /\ \A dep \in LockedDependencies : \A t \in Instants :
              AddDependency(dep, t) => lock'.metadata.updated_at = t
        /\ \A c \in Coordinates : \A t \in Instants :
              /\ (RemoveDependency(c[1], c[2], c[3], t) /\ lock_ret'.removed)
                    => lock'.metadata.updated_at = t
              /\ \A checksum \in Checksums :
                    (/\ UpdateChecksum(c[1], c[2], c[3], checksum, t)
                     /\ has_dependency(lock, c[1], c[2], c[3]))
                    => lock'.metadata.updated_at = t
              /\ \A url \in Urls :
                    (/\ UpdateUrl(c[1], c[2], c[3], url, t)
                     /\ has_dependency(lock, c[1], c[2], c[3]))
                    => lock'.metadata.updated_at = t ]_vars

\* update_url has changed the url of an entry at an instant after the store
\* was created
C20_Witness ==
    /\ lock_ret.op = "update_url"
    /\ lock_ret.key = "g:x:1.0"
    /\ "g:x:1.0" \in DOMAIN lock.dependencies
    /\ lock.dependencies["g:x:1.0"].url = "https://mirror/b.jar"
    /\ lock.metadata.created_at = 0
    /\ lock.metadata.updated_at = 1

(***************************************************************************)
(* Claims about the add command                                            *)
(***************************************************************************)
\* the number of fields of a string: one more than its colons
FieldCount(str) == Cardinality({ n \in DOMAIN str : str[n] = ":" }) + 1

\* C8: the add command accepts a dependency string of exactly 2 fields
\* (group, artifact, version unset) or exactly 3 fields (group, artifact,
\* version); any other number of fields is rejected as an invalid coordinate
\* and leaves the project's files as they were.
C8_FieldCount ==
    (add_ret.op = "add" /\ ConfigFile(add_ret.before) # "none") =>
        LET n == FieldCount(add_ret.dependency)
            d == add_ret.dep_info
        IN  /\ n = 2 => /\ d.kind = "Ok"
                        /\ d.version = <<>>
                        /\ Join(<<d.group_id, d.artifact_id>>, ":") = add_ret.dependency
            /\ n = 3 => /\ d.kind = "Ok"
                        /\ Len(d.version) = 1
                        /\ Join(<<d.group_id, d.artifact_id, d.version[1]>>, ":")
                               = add_ret.dependency
            /\ n \notin {2, 3} => /\ add_ret.kind = "Err"
                                  /\ add_ret.error = "InvalidCoordinate"
                                  /\ files = add_ret.before

\* a string of four fields has been rejected in a project that has a config file
C8_Witness ==
    /\ add_ret.op = "add"
    /\ add_ret.before["jx.toml"].exists
    /\ add_ret.dependency = <<"g", ":", "a", ":", "a", ":", "g">>
    /\ add_ret.kind = "Err"
    /\ add_ret.error = "InvalidCoordinate"

\* C9: a dependency string of 2 or 3 fields whose group or artifact field is
\* empty is rejected as an invalid coordinate.
C9_EmptyFieldRejected ==
    (add_ret.op = "add" /\ ConfigFile(add_ret.before) # "none") =>
        LET parts == Split(add_ret.dependency, ":")
        IN  (Len(parts) \in {2, 3} /\ (parts[1] = <<>> \/ parts[2] = <<>>)) =>
                /\ add_ret.kind = "Err"
                /\ add_ret.error = "InvalidCoordinate"
\* the group:artifact a line of jx.toml declares: the text before ` = "`
DeclaredKey(line) == Before(line, " = \"")
IsDeclaration(line) == \E n \in DOMAIN line : line[n] = " = \""

\* the number of lines of a file that declare the group:artifact key
Declarations(f, key) ==
    Cardinality({ n \in DOMAIN f.lines :
                    IsDeclaration(f.lines[n]) /\ DeclaredKey(f.lines[n]) = key })

DeclaredKeys(f) ==
    { DeclaredKey(f.lines[n]) : n \in { m \in DOMAIN f.lines : IsDeclaration(f.lines[m]) } }

\* C29: after a remove of group:artifact on jx.toml no line declares that
\* group:artifact, and every line that declares another group:artifact, also
\* one whose artifact id starts with the given one, is still there.
C29_RemoveOnlyNamed ==
    (/\ add_ret.op = "remove"
     /\ add_ret.kind = "Ok"
     /\ add_ret.before["jx.toml"].exists) =>
        LET key == add_ret.dep_info.group_id \o <<":">> \o add_ret.dep_info.artifact_id
        IN  /\ Declarations(files["jx.toml"], key) = 0
            /\ \A other \in DeclaredKeys(add_ret.before["jx.toml"]) \ {key} :
                  Declarations(files["jx.toml"], other)
                      = Declarations(add_ret.before["jx.toml"], other)
(***************************************************************************)
(* Claims about the artifact cache                                         *)
(***************************************************************************)
\* C30: the cache path download_dependency returns is that of a completely
\* written artifact, also after an earlier download of the same coordinate
\* failed while writing, and every file install_dependencies has copied into
\* lib is a complete artifact.
C30_CacheHoldsCompleteOnly ==
    /\ (dl_ret.op = "download" /\ dl_ret.kind = "Ok") =>
          /\ cache[dl_ret.path].exists
          /\ cache[dl_ret.path].written = MaxChunks
    /\ \A f \in LibNames : lib[f].exists => lib[f].written = MaxChunks
====
